---- MODULE Spec2Model ----
(***************************************************************************)
(* A model of the cached immutable-parameter layer of go-eth2-client:      *)
(*   - prysmgrpc Service.RANDAODomain (randaodomain.go lines 26-49), the   *)
(*     lazily cached fetch of the RANDAO domain, run by several goroutines;*)
(*   - tekuhttp New / fetchStaticValues / close (lines 154-267), the       *)
(*     constructor with its genesis-time probe and the teardown watcher.   *)
(* The cache slot s.randaoDomain is read and written with no lock, so each *)
(* access is a separate step and the steps of the callers interleave.      *)
(***************************************************************************)
EXTENDS Integers, Sequences, FiniteSets, TLC

(* ------------------------------ bounds -------------------------------- *)

\* Number of goroutines that call RANDAODomain on the one Service.
NumCallers == 2

\* Number of RANDAODomain calls made in total over a behaviour.
MaxCalls == 3

\* Number of event handlers subscribed in total over a behaviour.
MaxSubscribes == 2

\* Number of close() calls made besides the teardown goroutine's.
MaxExtraCloses == 2

Callers == 1..NumCallers

NIL == "nil"

\* The nil pointer of s.randaoDomain (the objects it can point to are 1..NumCallers).
NilPtr == 0

(* ------------------------- Config Value Parser ------------------------ *)

HexDigits == <<"0","1","2","3","4","5","6","7","8","9","a","b","c","d","e","f">>

IsHexDigit(c) == \E i \in 1..16 : HexDigits[i] = c

HexVal(c) == (CHOOSE i \in 1..16 : HexDigits[i] = c) - 1

\* The parser accepts "0x" followed by an even number of hex digits.
ParseAccepts(val) ==
    /\ Len(val) >= 2
    /\ val[1] = "0"
    /\ val[2] = "x"
    /\ (Len(val) - 2) % 2 = 0
    /\ \A i \in 3..Len(val) : IsHexDigit(val[i])

\* The decoded bytes, one per pair of hex digits: a slice of whatever length
\* the text has (the call site passes no target length).
DecodeBytes(val) ==
    [i \in 1..((Len(val) - 2) \div 2) |->
        16 * HexVal(val[2 * i + 1]) + HexVal(val[2 * i + 2])]

\* parseConfigByteArray(val): (bytes, err).
parseConfigByteArray(val) ==
    IF ParseAccepts(val)
    THEN [bytes |-> DecodeBytes(val), err |-> FALSE]
    ELSE [bytes |-> <<>>, err |-> TRUE]

\* spec.DomainType{}: the zero value of the 4-byte array.
ZeroDomain == <<0, 0, 0, 0>>

\* var domainType spec.DomainType; copy(domainType[:], tmp): copies
\* min(4, len(tmp)) bytes, the rest stays zero.
CopyDomain(tmp) == [i \in 1..4 |-> IF i <= Len(tmp) THEN tmp[i] ELSE 0]

(* --------------------------- upstream inputs -------------------------- *)

Raw4      == <<"0","x","0","1","0","0","0","0","0","0">>
Raw3      == <<"0","x","0","1","0","0","0","0">>
Raw5      == <<"0","x","0","1","0","0","0","0","0","0","0","2">>
RawOdd    == <<"0","x","0","1","0","0","0","0","0">>
RawBadHex == <<"0","x","0","g","0","0","0","0","0","0">>
RawNoPfx  == <<"0","1","0","0","0","0","0","0">>

RawVals == {Raw4, Raw3, Raw5, RawOdd, RawBadHex, RawNoPfx}

\* The config maps a node may serve: with or without the DomainRandao key.
Configs ==
    {[k \in {"DomainRandao", "DomainDeposit"} |-> v] : v \in RawVals}
        \cup {[k \in {"DomainDeposit"} |-> Raw4]}

(* ---------------------------- error values ---------------------------- *)

NoErr == [msg |-> "none", cause |-> "none"]

\* errors.Wrap(err, "failed to obtain configuration")
UpstreamErr(cause) == [msg |-> "failed to obtain configuration", cause |-> cause]

\* errors.New("config did not provide DomainRandao value")
MissingKeyErr == [msg |-> "config did not provide DomainRandao value", cause |-> "none"]

\* errors.Wrapf(err, "failed to convert value %q for DomainRandao", val)
FormatErr == [msg |-> "failed to convert value for DomainRandao", cause |-> "parse"]

(* ------------------------------- state -------------------------------- *)

VARIABLES
    nodeConfig,     \* the node's static configuration map
    randaoDomain,   \* s.randaoDomain: NilPtr or the caller whose domainType it points to
    heap,           \* heap[p]: contents, as other goroutines see them, of p's domainType
    pc,             \* pc[p]: position of caller p inside RANDAODomain
    ctxDone,        \* ctxDone[p]: the ctx of p's current call is cancelled
    domainType,     \* domainType[p]: p's local domainType after the copy
    result,         \* result[p]: what p's last call returned
    returned,       \* the values returned without error so far
    configRequests, \* GetBeaconConfig requests issued so far
    calls,          \* RANDAODomain calls begun so far
    fetched,        \* fetched[p]: p's current call issued a request
    upstream,       \* upstream[p]: how GetBeaconConfig ended in p's current or last call
    bornPopulated,  \* bornPopulated[p]: the slot was populated when p's current call began
    newPc,          \* position inside New
    params,         \* the parsed construction options
    svc,            \* the tekuhttp Service fields set by New
    newResult,      \* what New returned
    probeRequests,  \* genesis requests issued so far
    svcCtxDone,     \* the context passed to New is cancelled
    watcherPc,      \* position of the teardown goroutine
    mutex,          \* beaconChainHeadUpdatedMutex: "free" or its holder
    handlers,       \* beaconChainHeadUpdatedHandlers
    subPc,          \* position of the goroutine subscribing a handler
    subs,           \* handlers subscribed so far (the next handler is subs + 1)
    notified,       \* the handlers the latest notification was delivered to
    cleared,        \* the handlers close() has removed so far
    closeCalls,     \* close() calls made so far
    xPc,            \* position of a further close() call
    xCloses         \* further close() calls made so far

rvars == <<nodeConfig, randaoDomain, heap, pc, ctxDone, domainType, result,
           returned, configRequests, calls, fetched, upstream, bornPopulated>>

nvars == <<newPc, params, svc, newResult, probeRequests>>

\* The event-handler registry's users.
evars == <<subPc, subs, notified>>

\* The further close() calls.
xvars == <<xPc, xCloses>>

wvars == <<svcCtxDone, watcherPc, mutex, handlers, cleared, closeCalls,
           evars, xvars>>

vars == <<rvars, nvars, wvars>>

NoResult == [val |-> ZeroDomain, err |-> NoErr, done |-> FALSE]

NoSvc == [base |-> <<>>, address |-> <<>>, client |-> NIL, timeout |-> 0,
          genesisTime |-> NIL, genesisValidatorsRoot |-> NIL]

Init ==
    /\ nodeConfig \in Configs
    /\ randaoDomain = NilPtr
    /\ heap = [p \in Callers |-> ZeroDomain]
    /\ pc = [p \in Callers |-> "idle"]
    /\ ctxDone = [p \in Callers |-> FALSE]
    /\ domainType = [p \in Callers |-> ZeroDomain]
    /\ result = [p \in Callers |-> NoResult]
    /\ returned = {}
    /\ configRequests = 0
    /\ calls = 0
    /\ fetched = [p \in Callers |-> FALSE]
    /\ upstream = [p \in Callers |-> "none"]
    /\ bornPopulated = [p \in Callers |-> FALSE]
    /\ newPc = "start"
    /\ params = [address |-> <<>>, timeout |-> 0]
    /\ svc = NoSvc
    /\ newResult = [svc |-> NIL, err |-> "pending"]
    /\ probeRequests = 0
    /\ svcCtxDone = FALSE
    /\ watcherPc = "none"
    /\ mutex = "free"
    /\ handlers = <<>>
    /\ subPc = "idle"
    /\ subs = 0
    /\ notified = {}
    /\ cleared = {}
    /\ closeCalls = 0
    /\ xPc = "idle"
    /\ xCloses = 0

(* ---------------- prysmgrpc: Service.RANDAODomain --------------------- *)

InCall(p) == pc[p] # "idle"

\* Line 27: if s.randaoDomain == nil
SlotEmpty == randaoDomain = NilPtr

\* A return statement of RANDAODomain: the caller gets (val, err) and the
\* call, with its ctx, is over.
Return(p, val, err) ==
    /\ pc' = [pc EXCEPT ![p] = "idle"]
    /\ result' = [result EXCEPT ![p] = [val |-> val, err |-> err, done |-> TRUE]]
    /\ returned' = IF err = NoErr THEN returned \cup {val} ELSE returned
    /\ ctxDone' = [ctxDone EXCEPT ![p] = FALSE]
    /\ fetched' = [fetched EXCEPT ![p] = FALSE]
    /\ bornPopulated' = [bornPopulated EXCEPT ![p] = FALSE]

\* A goroutine enters RANDAODomain(ctx); the ctx may already be cancelled.
Begin(p) ==
    /\ newPc = "returned"
    /\ pc[p] = "idle"
    /\ calls < MaxCalls
    /\ calls' = calls + 1
    /\ pc' = [pc EXCEPT ![p] = "l27"]
    /\ \E c \in BOOLEAN : ctxDone' = [ctxDone EXCEPT ![p] = c]
    /\ result' = [result EXCEPT ![p] = NoResult]
    /\ fetched' = [fetched EXCEPT ![p] = FALSE]
    /\ upstream' = [upstream EXCEPT ![p] = "none"]
    /\ bornPopulated' = [bornPopulated EXCEPT ![p] = ~SlotEmpty]
    /\ UNCHANGED <<nodeConfig, randaoDomain, heap, domainType, returned,
                   configRequests, nvars, wvars>>

\* The caller cancels the ctx of a call whose request is in flight. (A ctx
\* cancelled before line 30 acts as one cancelled at entry; after line 31 the
\* call no longer reads it.)
CancelCtx(p) ==
    /\ pc[p] = "wait"
    /\ ~ctxDone[p]
    /\ ctxDone' = [ctxDone EXCEPT ![p] = TRUE]
    /\ UNCHANGED <<nodeConfig, randaoDomain, heap, pc, domainType, result,
                   returned, configRequests, calls, fetched, upstream,
                   bornPopulated, nvars, wvars>>

\* Line 27: the unsynchronised read of s.randaoDomain.
Check(p) ==
    /\ pc[p] = "l27"
    /\ pc' = [pc EXCEPT ![p] = IF SlotEmpty THEN "l30" ELSE "l48"]
    /\ UNCHANGED <<nodeConfig, randaoDomain, heap, ctxDone, domainType, result,
                   returned, configRequests, calls, fetched, upstream,
                   bornPopulated, nvars, wvars>>

\* Lines 28-30: conn.GetBeaconConfig(opCtx, ...) is sent.
Issue(p) ==
    /\ pc[p] = "l30"
    /\ pc' = [pc EXCEPT ![p] = "wait"]
    /\ configRequests' = configRequests + 1
    /\ fetched' = [fetched EXCEPT ![p] = TRUE]
    /\ UNCHANGED <<nodeConfig, randaoDomain, heap, ctxDone, domainType, result,
                   returned, calls, upstream, bornPopulated, nvars, wvars>>

\* opCtx derived from context.Background(): the caller's ctx plays no part.
FailureCausesOfTimeout(p) == {"transport", "deadline exceeded"}

\* The causes GetBeaconConfig can fail with: opCtx derives from the caller's
\* ctx, so a cancelled ctx fails the request; otherwise the transport or the
\* timeout may.
FailureCauses(p) ==
    IF ctxDone[p] THEN {"context canceled"}
    ELSE {"transport", "deadline exceeded"}

\* UpstreamFailure with negative caching: the zero value is stored in the slot.
UpstreamFailureCaching(p, cause) ==
    /\ Return(p, ZeroDomain, UpstreamErr(cause))
    /\ randaoDomain' = p
    /\ heap' = [heap EXCEPT ![p] = ZeroDomain]
    /\ UNCHANGED domainType

\* UpstreamFailure followed by another attempt: the call goes back to line 30.
UpstreamFailureRetry(p, cause) ==
    /\ pc' = [pc EXCEPT ![p] = "l30"]
    /\ UNCHANGED <<result, returned, ctxDone, fetched, bornPopulated,
                   randaoDomain, heap, domainType>>

\* Lines 32-34: the request failed.
UpstreamFailure(p, cause) ==
    /\ Return(p, ZeroDomain, UpstreamErr(cause))
    /\ UNCHANGED <<randaoDomain, heap, domainType>>

\* Lines 36-39: the config map has no DomainRandao entry.
MissingKey(p) ==
    /\ Return(p, ZeroDomain, MissingKeyErr)
    /\ UNCHANGED <<randaoDomain, heap, domainType>>

\* Lines 40-43: parseConfigByteArray rejected the value.
ParseFailure(p) ==
    /\ Return(p, ZeroDomain, FormatErr)
    /\ UNCHANGED <<randaoDomain, heap, domainType>>

\* Lines 44-45: the decoded bytes are copied into the local domainType.
ParseSuccess(p, tmp) ==
    /\ domainType' = [domainType EXCEPT ![p] = CopyDomain(tmp)]
    /\ pc' = [pc EXCEPT ![p] = "l46"]
    /\ UNCHANGED <<randaoDomain, heap, result, returned, ctxDone, fetched,
                   bornPopulated>>

\* HandleConfig without the exists test of line 37: an absent key reads as the
\* empty string, which is handed to the parser.
HandleConfigNoExists(p, config) ==
    LET val == IF "DomainRandao" \in DOMAIN config
               THEN config["DomainRandao"] ELSE <<>>
        r   == parseConfigByteArray(val)
    IN  IF r.err THEN ParseFailure(p) ELSE ParseSuccess(p, r.bytes)

\* Lines 36-45: what the call does with a config it obtained.
HandleConfig(p, config) ==
    IF "DomainRandao" \notin DOMAIN config
    THEN MissingKey(p)
    ELSE LET r == parseConfigByteArray(config["DomainRandao"])
         IN  IF r.err THEN ParseFailure(p) ELSE ParseSuccess(p, r.bytes)

\* Lines 30-45: GetBeaconConfig returns, with an error or with the config.
Respond(p) ==
    /\ pc[p] = "wait"
    /\ \/ \E cause \in FailureCauses(p) :
             /\ upstream' = [upstream EXCEPT ![p] = cause]
             /\ UpstreamFailure(p, cause)
       \/ /\ ~ctxDone[p]
          /\ upstream' = [upstream EXCEPT ![p] = "ok"]
          /\ HandleConfig(p, nodeConfig)
    /\ UNCHANGED <<nodeConfig, configRequests, calls, nvars, wvars>>

\* Lines 45-46, the stores seen in program order by the other goroutines:
\* the copied bytes are visible when the pointer is.
StoreOrdered(p) ==
    /\ pc[p] = "l46"
    /\ heap' = [heap EXCEPT ![p] = domainType[p]]
    /\ randaoDomain' = p
    /\ pc' = [pc EXCEPT ![p] = "l48"]
    /\ UNCHANGED <<nodeConfig, ctxDone, domainType, result, returned,
                   configRequests, calls, fetched, upstream, bornPopulated,
                   nvars, wvars>>

\* Lines 45-46 with no synchronisation between them and a reader: the pointer
\* store may become visible before the copy into the freshly zeroed object.
StoreEarly(p) ==
    /\ pc[p] = "l46"
    /\ heap' = [heap EXCEPT ![p] = ZeroDomain]
    /\ randaoDomain' = p
    /\ pc' = [pc EXCEPT ![p] = "l45v"]
    /\ UNCHANGED <<nodeConfig, ctxDone, domainType, result, returned,
                   configRequests, calls, fetched, upstream, bornPopulated,
                   nvars, wvars>>

\* The copy of line 45 becomes visible to the other goroutines.
CopyVisible(p) ==
    /\ pc[p] = "l45v"
    /\ heap' = [heap EXCEPT ![p] = domainType[p]]
    /\ pc' = [pc EXCEPT ![p] = "l48"]
    /\ UNCHANGED <<nodeConfig, randaoDomain, ctxDone, domainType, result,
                   returned, configRequests, calls, fetched, upstream,
                   bornPopulated, nvars, wvars>>

\* Line 48: return *s.randaoDomain, nil (a second unsynchronised read).
Ret(p) ==
    /\ pc[p] = "l48"
    /\ randaoDomain # NilPtr
    /\ Return(p, heap[randaoDomain], NoErr)
    /\ UNCHANGED <<nodeConfig, randaoDomain, heap, domainType,
                   configRequests, calls, upstream, nvars, wvars>>

RANDAODomain(p) ==
    \/ Begin(p)
    \/ CancelCtx(p)
    \/ Check(p)
    \/ Issue(p)
    \/ Respond(p)
    \/ StoreOrdered(p)
    \/ StoreEarly(p)
    \/ CopyVisible(p)
    \/ Ret(p)

(* ---------------- tekuhttp: New and the genesis probe ----------------- *)

AddrEmpty == <<>>
AddrBare  == <<"n">>
AddrHttp  == <<"h","t","t","p",":","/","/","n">>
AddrBad   == <<"n"," ">>

Addresses == {AddrEmpty, AddrBare, AddrHttp, AddrBad}

Timeouts == {0, 1}

\* parseAndCheckParameters: the address is required, the timeout must be > 0.
ParametersOK(prm) == Len(prm.address) > 0 /\ prm.timeout > 0

\* strings.HasPrefix(address, "http")
HasPrefixHttp(a) == Len(a) >= 4 /\ SubSeq(a, 1, 4) = <<"h","t","t","p">>

\* Lines 174-177: the address the base URL is parsed from.
BaseAddress(a) ==
    IF HasPrefixHttp(a) THEN a ELSE <<"h","t","t","p",":","/","/">> \o a

\* url.Parse rejects a host holding a space.
URLParses(u) == \A i \in 1..Len(u) : u[i] # " "

\* What New hands back to its caller.
NewReturns(s, err) == newResult' = [svc |-> s, err |-> err]

\* New(ctx, params...) is called.
NewCall ==
    /\ newPc = "start"
    /\ \E a \in Addresses, t \in Timeouts :
          params' = [address |-> a, timeout |-> t]
    /\ newPc' = "l155"
    /\ UNCHANGED <<svc, newResult, probeRequests, rvars, wvars>>

\* NewParameters with the node contacted before the parameter error is reported.
NewParametersLate ==
    /\ newPc = "l155"
    /\ IF ParametersOK(params)
       THEN newPc' = "l174" /\ UNCHANGED <<newResult, probeRequests>>
       ELSE /\ probeRequests' = probeRequests + 1
            /\ newPc' = "failed"
            /\ NewReturns(NIL, "problem with parameters")
    /\ UNCHANGED <<params, svc, rvars, wvars>>

\* Lines 155-158: parseAndCheckParameters.
NewParameters ==
    /\ newPc = "l155"
    /\ IF ParametersOK(params)
       THEN newPc' = "l174" /\ UNCHANGED newResult
       ELSE newPc' = "failed" /\ NewReturns(NIL, "problem with parameters")
    /\ UNCHANGED <<params, svc, probeRequests, rvars, wvars>>

\* Lines 174-189: the base URL is parsed and the Service is built.
NewService ==
    /\ newPc = "l174"
    /\ IF URLParses(BaseAddress(params.address))
       THEN /\ svc' = [base |-> BaseAddress(params.address),
                       address |-> params.address,
                       client |-> "client",
                       timeout |-> params.timeout,
                       genesisTime |-> NIL,
                       genesisValidatorsRoot |-> NIL]
            /\ newPc' = "l192"
            /\ UNCHANGED newResult
       ELSE /\ newPc' = "failed"
            /\ NewReturns(NIL, "invalid URL")
            /\ UNCHANGED svc
    /\ UNCHANGED <<params, probeRequests, rvars, wvars>>

\* Lines 192, 209: fetchStaticValues calls GenesisTime, which sends its request.
NewProbeIssue ==
    /\ newPc = "l192"
    /\ newPc' = "probe"
    /\ probeRequests' = probeRequests + 1
    /\ UNCHANGED <<params, svc, newResult, rvars, wvars>>

\* GenesisTime succeeded: the genesis time is cached in the Service.
ProbeSucceeded ==
    /\ svc' = [svc EXCEPT !.genesisTime = "t0"]
    /\ newPc' = "l197"
    /\ UNCHANGED newResult

\* ProbeFailed with the error of fetchStaticValues dropped: s is returned.
ProbeFailedIgnored ==
    /\ newPc' = "returned"
    /\ NewReturns("s", "none")
    /\ UNCHANGED svc

\* Lines 192-194, 209-211: GenesisTime failed, New returns nil and the error.
ProbeFailed ==
    /\ newPc' = "failed"
    /\ NewReturns(NIL, "failed to confirm node connection")
    /\ UNCHANGED svc

\* The genesis request returns; it cannot succeed under a cancelled context.
NewProbeRespond ==
    /\ newPc = "probe"
    /\ \/ ProbeFailed
       \/ ~svcCtxDone /\ ProbeSucceeded
    /\ UNCHANGED <<params, probeRequests, rvars, wvars>>

\* Lines 196-203: the teardown goroutine is started and s is returned.
NewWatch ==
    /\ newPc = "l197"
    /\ newPc' = "returned"
    /\ watcherPc' = "waiting"
    /\ NewReturns("s", "none")
    /\ UNCHANGED <<params, svc, probeRequests, rvars, svcCtxDone, mutex,
                   handlers, cleared, closeCalls, evars, xvars>>

New ==
    \/ NewCall
    \/ NewParameters
    \/ NewService
    \/ NewProbeIssue
    \/ NewProbeRespond
    \/ NewWatch

(* ---------------- tekuhttp: Name and Address -------------------------- *)

\* Lines 253-255: Name() returns a literal.
Name == "Teku (HTTP)"

\* Address() returning the parsed base URL's text instead of the option.
AddressOfBase == svc.base

\* Lines 258-260: Address() returns s.address.
Address == svc.address

(* ---------------- tekuhttp: teardown watcher and close ---------------- *)

Range(f) == {f[i] : i \in DOMAIN f}

\* Line 264: s.beaconChainHeadUpdatedMutex.Lock()
MutexLock(who) == mutex = "free" /\ mutex' = who

\* Line 265: the handlers are replaced by an empty slice.
HandlersCleared ==
    /\ handlers' = <<>>
    /\ cleared' = cleared \cup Range(handlers)

\* Line 266 left out: the mutex stays held.
MutexUnlockMissing == mutex' = mutex

\* Line 266: s.beaconChainHeadUpdatedMutex.Unlock()
MutexUnlock == mutex' = "free"

\* The owner of the context passed to New cancels it.
CancelSvcCtx ==
    /\ newPc # "start"
    /\ ~svcCtxDone
    /\ svcCtxDone' = TRUE
    /\ UNCHANGED <<watcherPc, mutex, handlers, cleared, closeCalls, evars,
                   xvars, rvars, nvars>>

\* The teardown goroutine calling s.close() without waiting for ctx.Done().
WatcherWakeUnguarded ==
    /\ watcherPc = "waiting"
    /\ watcherPc' = "l264"
    /\ closeCalls' = closeCalls + 1
    /\ UNCHANGED <<svcCtxDone, mutex, handlers, cleared, evars, xvars, rvars,
                   nvars>>

\* Lines 198-200: <-ctx.Done() returns and s.close() is called.
WatcherWake ==
    /\ watcherPc = "waiting"
    /\ svcCtxDone
    /\ watcherPc' = "l264"
    /\ closeCalls' = closeCalls + 1
    /\ UNCHANGED <<svcCtxDone, mutex, handlers, cleared, evars, xvars, rvars,
                   nvars>>

\* close() going on to line 265 without the lock of line 264.
CloseLockSkipped ==
    /\ watcherPc = "l264"
    /\ watcherPc' = "l265"
    /\ UNCHANGED <<svcCtxDone, mutex, handlers, cleared, closeCalls, evars,
                   xvars, rvars, nvars>>

\* Line 264, in the teardown goroutine.
CloseLock ==
    /\ watcherPc = "l264"
    /\ MutexLock("close")
    /\ watcherPc' = "l265"
    /\ UNCHANGED <<svcCtxDone, handlers, cleared, closeCalls, evars, xvars,
                   rvars, nvars>>

\* Line 265 assigning the empty slice to a local: the field keeps its handlers.
CloseReplaceLocal ==
    /\ watcherPc = "l265"
    /\ cleared' = cleared \cup Range(handlers)
    /\ watcherPc' = "l266"
    /\ UNCHANGED <<svcCtxDone, mutex, handlers, closeCalls, evars, xvars,
                   rvars, nvars>>

\* Line 265 also dropping the cached genesis time.
CloseReplaceAll ==
    /\ watcherPc = "l265"
    /\ HandlersCleared
    /\ svc' = [svc EXCEPT !.genesisTime = NIL]
    /\ watcherPc' = "l266"
    /\ UNCHANGED <<svcCtxDone, mutex, closeCalls, evars, xvars, rvars,
                   newPc, params, newResult, probeRequests>>

\* Line 265, in the teardown goroutine.
CloseReplace ==
    /\ watcherPc = "l265"
    /\ HandlersCleared
    /\ watcherPc' = "l266"
    /\ UNCHANGED <<svcCtxDone, mutex, closeCalls, evars, xvars, rvars, nvars>>

\* Line 266, in the teardown goroutine; close() and the goroutine end.
CloseUnlock ==
    /\ watcherPc = "l266"
    /\ MutexUnlock
    /\ watcherPc' = "done"
    /\ UNCHANGED <<svcCtxDone, handlers, cleared, closeCalls, evars, xvars,
                   rvars, nvars>>

Watcher ==
    \/ WatcherWake
    \/ CloseLock
    \/ CloseReplace
    \/ CloseUnlock

(* ---------------- a further call of close() --------------------------- *)

\* close() is called again, by another goroutine of the package.
XCloseCall ==
    /\ newPc = "returned"
    /\ xPc = "idle"
    /\ xCloses < MaxExtraCloses
    /\ xCloses' = xCloses + 1
    /\ closeCalls' = closeCalls + 1
    /\ xPc' = "l264"
    /\ UNCHANGED <<svcCtxDone, watcherPc, mutex, handlers, cleared, evars,
                   rvars, nvars>>

\* Line 264.
XCloseLock ==
    /\ xPc = "l264"
    /\ MutexLock("xclose")
    /\ xPc' = "l265"
    /\ UNCHANGED <<svcCtxDone, watcherPc, handlers, cleared, closeCalls,
                   xCloses, evars, rvars, nvars>>

\* Line 265.
XCloseReplace ==
    /\ xPc = "l265"
    /\ HandlersCleared
    /\ xPc' = "l266"
    /\ UNCHANGED <<svcCtxDone, watcherPc, mutex, closeCalls, xCloses, evars,
                   rvars, nvars>>

\* Line 266.
XCloseUnlock ==
    /\ xPc = "l266"
    /\ MutexUnlock
    /\ xPc' = "idle"
    /\ UNCHANGED <<svcCtxDone, watcherPc, handlers, cleared, closeCalls,
                   xCloses, evars, rvars, nvars>>

XClose ==
    \/ XCloseCall
    \/ XCloseLock
    \/ XCloseReplace
    \/ XCloseUnlock

(* ---------------- the event-handler registry -------------------------- *)

\* Subscribe(handler) takes the write lock.
SubLock ==
    /\ newPc = "returned"
    /\ subPc = "idle"
    /\ subs < MaxSubscribes
    /\ MutexLock("sub")
    /\ subs' = subs + 1
    /\ subPc' = "append"
    /\ UNCHANGED <<svcCtxDone, watcherPc, handlers, cleared, closeCalls,
                   notified, xvars, rvars, nvars>>

\* Subscribe(handler) appends the handler to the collection.
SubAppend ==
    /\ subPc = "append"
    /\ handlers' = Append(handlers, subs)
    /\ subPc' = "unlock"
    /\ UNCHANGED <<svcCtxDone, watcherPc, mutex, cleared, closeCalls, subs,
                   notified, xvars, rvars, nvars>>

\* Subscribe(handler) releases the write lock.
SubUnlock ==
    /\ subPc = "unlock"
    /\ MutexUnlock
    /\ subPc' = "idle"
    /\ UNCHANGED <<svcCtxDone, watcherPc, handlers, cleared, closeCalls, subs,
                   notified, xvars, rvars, nvars>>

\* Notify(event): under the read lock, every handler of the collection is
\* invoked.
Notify ==
    /\ newPc = "returned"
    /\ mutex = "free"
    /\ notified' = Range(handlers)
    /\ UNCHANGED <<svcCtxDone, watcherPc, mutex, handlers, cleared, closeCalls,
                   subPc, subs, xvars, rvars, nvars>>

Registry ==
    \/ SubLock
    \/ SubAppend
    \/ SubUnlock
    \/ Notify

(* --------------------------- specification ---------------------------- *)

\* The operations of the source file: construction, teardown and the
\* RANDAODomain callers, interleaved.
Next ==
    \/ New
    \/ CancelSvcCtx
    \/ Watcher
    \/ \E p \in Callers : RANDAODomain(p)

Spec == Init /\ [][Next]_vars

\* The RANDAODomain callers of a constructed Service, with no teardown.
NextCalls ==
    \/ New
    \/ \E p \in Callers : RANDAODomain(p)

SpecCalls == Init /\ [][NextCalls]_vars

\* Construction and teardown of a Service and the users of its handler
\* registry, with no RANDAODomain caller.
NextLifecycle ==
    \/ New
    \/ CancelSvcCtx
    \/ Watcher
    \/ Registry

SpecLifecycle == Init /\ [][NextLifecycle]_vars

\* The goroutines are scheduled fairly: a goroutine that can take a step
\* takes it, and one waiting in Lock() gets the mutex (a waiting writer of a
\* sync.RWMutex is handed the lock once the current holders release it).
FairTeardown ==
    /\ WF_vars(WatcherWake)
    /\ SF_vars(CloseLock)
    /\ WF_vars(CloseReplace)
    /\ WF_vars(CloseUnlock)
    /\ WF_vars(SubAppend)
    /\ WF_vars(SubUnlock)

SpecLifecycleFair == SpecLifecycle /\ FairTeardown

\* The lifecycle with close() also called by other goroutines.
NextClose ==
    \/ NextLifecycle
    \/ XClose

SpecClose ==
    /\ Init
    /\ [][NextClose]_vars
    /\ FairTeardown
    /\ SF_vars(XCloseLock)
    /\ WF_vars(XCloseReplace)
    /\ WF_vars(XCloseUnlock)

(* ------------------------------ claims -------------------------------- *)

\* The next step of caller p may write s.randaoDomain or the object it points to.
MayWrite(p) == ENABLED (StoreOrdered(p) \/ StoreEarly(p) \/ CopyVisible(p))

\* The next step of caller p may read s.randaoDomain or the object it points to.
MayRead(p) == ENABLED (Check(p) \/ Ret(p))

\* C1: of the RANDAODomain calls that run concurrently while the slot is
\* empty, at most one has issued a GetBeaconConfig request.
C1_AtMostOneFetch == Cardinality({p \in Callers : fetched[p]}) <= 1

\* C2: any two RANDAODomain calls that return without error return the same
\* 4-byte value.
C2_SameValue == Cardinality(returned) <= 1

\* C7: once the randaoDomain slot is populated it is never reset and never
\* overwritten.
C7_WrittenOnce == [][~SlotEmpty => randaoDomain' = randaoDomain]_vars

\* C8: no state is reachable in which one call may write the slot while
\* another call may read or write it.
C8_MutualExclusion ==
    \A p, q \in Callers :
        p # q => ~(MayWrite(p) /\ (MayRead(q) \/ MayWrite(q)))

\* The value the slot caches: the domainType its pointer was taken from.
CachedValue == domainType[randaoDomain]

\* C3: a call begun when the slot is populated issues no request and returns
\* the cached value without error.
C3_CachedAfterPopulated ==
    [][\A p \in Callers :
          bornPopulated[p] =>
              /\ ~fetched'[p]
              /\ (pc[p] # "idle" /\ pc'[p] = "idle") =>
                    /\ result'[p].err = NoErr
                    /\ result'[p].val = CachedValue]_vars

IsFailure(u) == u \notin {"none", "ok"}

\* C4: a call whose GetBeaconConfig request fails returns the zero DomainType
\* with an error wrapping the transport error and does not write the slot; a
\* call that finds the slot empty sends a new request whatever failed before.
C4_UpstreamFailure ==
    [][\A p \in Callers :
          /\ (upstream'[p] # upstream[p] /\ IsFailure(upstream'[p])) =>
                /\ pc'[p] = "idle"
                /\ result'[p] = [val |-> ZeroDomain,
                                 err |-> UpstreamErr(upstream'[p]),
                                 done |-> TRUE]
                /\ randaoDomain' = randaoDomain
                /\ heap' = heap
          /\ (pc[p] = "l27" /\ pc'[p] # "l27" /\ SlotEmpty) => pc'[p] = "l30"
          /\ (pc[p] = "l30" /\ pc'[p] # "l30") =>
                configRequests' = configRequests + 1]_vars

\* C4 witness: the only caller so far has a second request in flight, its
\* first call having failed upstream against a node with a good config.
C4_Witness ==
    /\ "DomainRandao" \in DOMAIN nodeConfig
    /\ nodeConfig["DomainRandao"] = Raw4
    /\ calls = 2
    /\ configRequests = 2
    /\ pc[1] = "wait"
    /\ \A q \in Callers \ {1} : pc[q] = "idle" /\ ~result[q].done
    /\ SlotEmpty

KeyMissing == "DomainRandao" \notin DOMAIN nodeConfig

ValueRejected ==
    /\ ~KeyMissing
    /\ parseConfigByteArray(nodeConfig["DomainRandao"]).err

\* C5: with the config fetched, a missing DomainRandao key gives the
\* missing-key error, a value the parser rejects gives the format error, the
\* two differ, and the slot stays empty.
C5_ConfigErrors ==
    /\ MissingKeyErr.msg # FormatErr.msg
    /\ (KeyMissing \/ ValueRejected) => SlotEmpty
    /\ \A p \in Callers :
          (result[p].done /\ upstream[p] = "ok") =>
              /\ KeyMissing =>
                    result[p] = [val |-> ZeroDomain, err |-> MissingKeyErr,
                                 done |-> TRUE]
              /\ ValueRejected =>
                    result[p] = [val |-> ZeroDomain, err |-> FormatErr,
                                 done |-> TRUE]

\* C5 witness: a call got a config without the key and returned.
C5_Witness ==
    /\ KeyMissing
    /\ \E p \in Callers :
          result[p].done /\ upstream[p] = "ok" /\ result[p].err = MissingKeyErr

\* The decoded DomainRandao value has a length other than 4.
WrongLength ==
    /\ ~KeyMissing
    /\ ~ValueRejected
    /\ Len(parseConfigByteArray(nodeConfig["DomainRandao"]).bytes) # 4

C9_ServiceOnlyAfterProbe ==
    /\ newResult.svc # NIL =>
          /\ svc.genesisTime # NIL
          /\ probeRequests >= 1
          /\ newResult.err = "none"
    /\ (newPc = "failed" /\ probeRequests >= 1) =>
          newResult = [svc |-> NIL, err |-> "failed to confirm node connection"]

\* C9 witness: New has returned a Service.
C9_Witness ==
    /\ newPc = "returned"
    /\ newResult.svc = "s"
    /\ svc.genesisTime = "t0"

\* C10: missing or invalid options make New return an error, and no request
\* has been issued when it does.
C10_ValidationBeforeIO ==
    /\ (newPc \notin {"start", "l155"} /\ ~ParametersOK(params)) =>
          newResult = [svc |-> NIL, err |-> "problem with parameters"]
    /\ (/\ newPc \notin {"start", "l155", "l174"}
        /\ ParametersOK(params)
        /\ ~URLParses(BaseAddress(params.address))) =>
          newResult = [svc |-> NIL, err |-> "invalid URL"]
    /\ newResult.err \in {"problem with parameters", "invalid URL"} =>
          probeRequests = 0 /\ configRequests = 0

\* C10 witness: New failed on its parameters.
C10_Witness ==
    /\ newPc = "failed"
    /\ newResult.err = "problem with parameters"

\* C11: once a Service has been returned and the context passed to New is
\* cancelled, the teardown goroutine eventually runs close() to its end; the
\* replacement of the handlers happens with the mutex held by close(), and
\* leaves the registry empty.
C11_TeardownOnCancel ==
    /\ (newPc = "returned" /\ svcCtxDone /\ watcherPc = "waiting") ~>
          (watcherPc = "l266" /\ handlers = <<>> /\ mutex = "close")
    /\ (newPc = "returned" /\ svcCtxDone) ~> (watcherPc = "done")
    /\ [][watcherPc = "l265" /\ watcherPc' = "l266" =>
             mutex = "close" /\ mutex' = "close" /\ handlers' = <<>>]_vars

\* C11 witness: the context was cancelled after a handler was subscribed, and
\* close() has emptied the registry.
C11_Witness ==
    /\ svcCtxDone
    /\ watcherPc = "done"
    /\ cleared # {}
    /\ handlers = <<>>

\* C12: once close() has replaced the collection, no handler it removed is in
\* the registry or receives a later notification, while a handler subscribed
\* after the replacement is appended to the registry and a notification
\* reaches every handler of the registry.
C12_ClearedHandlersGone ==
    /\ [](Range(handlers) \cap cleared = {})
    /\ [][notified' # notified =>
             /\ notified' = Range(handlers)
             /\ notified' \cap cleared = {}]_vars
    /\ [][(subPc = "append" /\ subPc' = "unlock") =>
             /\ handlers' = Append(handlers, subs)
             /\ subs \notin cleared]_vars

\* C12 witness: a handler was subscribed and removed by close(); another one,
\* subscribed afterwards, is registered and has been notified.
C12_Witness ==
    /\ watcherPc = "done"
    /\ cleared = {1}
    /\ handlers = <<2>>
    /\ notified = {2}

\* A call of close() executes one of lines 264-266 in this step.
CloseSteps ==
    \/ watcherPc \in {"l264", "l265", "l266"} /\ watcherPc' # watcherPc
    \/ xPc \in {"l264", "l265", "l266"} /\ xPc' # xPc

\* A call of close() returns in this step.
CloseReturns ==
    \/ watcherPc = "l266" /\ watcherPc' = "done"
    \/ xPc = "l266" /\ xPc' = "idle"

\* C13: however many calls of close() ran before it or run beside it, a call
\* of close() that returns leaves the registry empty and the mutex released
\* and has changed nothing else of the Service, and every call of close()
\* that has started returns.
C13_CloseIdempotent ==
    /\ [][CloseReturns =>
             /\ handlers' = <<>>
             /\ mutex' = "free"]_vars
    /\ [][CloseSteps =>
             /\ svc' = svc
             /\ UNCHANGED <<randaoDomain, heap, domainType, newResult>>]_vars
    /\ (watcherPc = "l264") ~> (watcherPc = "done")
    /\ (xPc = "l264") ~> (xPc = "idle")

\* C13 witness: close() has run to its end three times, the first run having
\* removed a handler.
C13_Witness ==
    /\ watcherPc = "done"
    /\ xPc = "idle"
    /\ xCloses = 2
    /\ closeCalls = 3
    /\ cleared # {}
    /\ handlers = <<>>
    /\ mutex = "free"

\* C14, as stated: no RANDAODomain call fails because the context passed to
\* it was cancelled.
C14_IndependentOfCallerCtx ==
    \A p \in Callers : upstream[p] # "context canceled"

\* C14, amended: the request runs under a context derived from the caller's
\* with the service's timeout. A request whose caller's context is cancelled
\* fails with the context's error, and the call returns the zero value and
\* "failed to obtain configuration" without writing the slot; a request whose
\* caller's context is not cancelled ends with the node's answer, a transport
\* error or the deadline of the timeout.
C14_BoundedByTimeoutAndCtx ==
    [][\A p \in Callers :
          (pc[p] = "wait" /\ pc'[p] # "wait") =>
             /\ ctxDone[p] =>
                   /\ upstream'[p] = "context canceled"
                   /\ result'[p] = [val |-> ZeroDomain,
                                    err |-> UpstreamErr("context canceled"),
                                    done |-> TRUE]
                   /\ randaoDomain' = randaoDomain
             /\ ~ctxDone[p] =>
                   upstream'[p] \in {"ok", "transport", "deadline exceeded"}]_vars

\* C14 witness: a call has returned the error of a request that its caller's
\* cancelled context aborted.
C14_Witness ==
    \E p \in Callers :
        /\ result[p].done
        /\ upstream[p] = "context canceled"
        /\ result[p].err = UpstreamErr("context canceled")

\* C15: on a Service that New has returned, Name() is "Teku (HTTP)" and
\* Address() is the address option as it was given to New, not the base URL
\* made from it, in every state: whether or not the RANDAODomain slot is
\* populated and whether or not close() has run; no step changes either.
C15_NameAddressConstant ==
    /\ [](newResult.svc = "s" =>
             /\ Name = "Teku (HTTP)"
             /\ Address = params.address)
    /\ [][newResult.svc = "s" =>
             /\ Address' = Address
             /\ params' = params]_vars

\* C15 witness: the address was given without a scheme, the slot is populated
\* and close() has run.
C15_Witness ==
    /\ newResult.svc = "s"
    /\ params.address = AddrBare
    /\ svc.base # AddrBare
    /\ ~SlotEmpty
    /\ watcherPc = "done"

\* C16: a request is sent only by the step from line 30, which a call takes
\* at most once, having come from the nil test of line 27; a call whose
\* request failed, or whose config lacks the key or holds a rejected value,
\* returns that error in the same step; so the requests sent never outnumber
\* the calls made.
C16_NoRetry ==
    /\ [](configRequests <= calls)
    /\ [][\A p \in Callers :
             /\ (pc[p] = "l30" /\ pc'[p] # "l30") =>
                   /\ ~fetched[p]
                   /\ pc'[p] = "wait"
                   /\ configRequests' = configRequests + 1
             /\ (pc[p] # "l30" /\ pc'[p] = "l30") => pc[p] = "l27"
             /\ (pc[p] = "wait" /\ pc'[p] # "wait") =>
                   /\ configRequests' = configRequests
                   /\ \/ pc'[p] = "l46" /\ upstream'[p] = "ok"
                      \/ /\ pc'[p] = "idle"
                         /\ result'[p].done
                         /\ result'[p].err \in
                               {UpstreamErr(upstream'[p]), MissingKeyErr,
                                FormatErr}]_vars
    /\ [][configRequests' # configRequests =>
             \E p \in Callers : pc[p] = "l30" /\ pc'[p] = "wait"]_vars

\* C16 witness: one call was made, its one request failed and the call has
\* returned the error.
C16_Witness ==
    /\ calls = 1
    /\ configRequests = 1
    /\ \E p \in Callers :
          /\ result[p].done
          /\ IsFailure(upstream[p])
          /\ pc[p] = "idle"

\* C17: the steps of close() leave every field of the Service but the mutex
\* and the handlers as it was, so that from the call of close() on the
\* Service still holds the genesis time the probe cached and the address,
\* base URL, timeout and client New gave it.
C17_CloseFrame ==
    /\ [][CloseSteps =>
             /\ svc' = svc
             /\ params' = params
             /\ UNCHANGED <<randaoDomain, heap, domainType>>]_vars
    /\ [](watcherPc \in {"l264", "l265", "l266", "done"} =>
             svc = [base |-> BaseAddress(params.address),
                    address |-> params.address,
                    client |-> "client",
                    timeout |-> params.timeout,
                    genesisTime |-> "t0",
                    genesisValidatorsRoot |-> NIL])

\* C17 witness: close() has removed a handler and returned, and the genesis
\* time is still cached.
C17_Witness ==
    /\ watcherPc = "done"
    /\ cleared # {}
    /\ svc.genesisTime = "t0"
    /\ svc.timeout = 1

\* C18: the teardown goroutine exists only once New has returned a Service,
\* and never for a New that failed; close() is called at most once, exactly
\* once when the goroutine has ended, and only with the context passed to New
\* cancelled; while that context is not cancelled no handler is removed from
\* the registry.
C18_WatcherOncePerService ==
    /\ [](watcherPc # "none" => newPc = "returned" /\ newResult.svc = "s")
    /\ [](newPc = "failed" => watcherPc = "none" /\ closeCalls = 0)
    /\ [](closeCalls <= 1)
    /\ [](closeCalls = 1 <=> watcherPc \in {"l264", "l265", "l266", "done"})
    /\ [](closeCalls >= 1 => svcCtxDone)
    /\ [][~svcCtxDone' =>
             /\ cleared' = cleared
             /\ \/ handlers' = handlers
                \/ handlers' = Append(handlers, subs)]_vars

\* C18 witness: the context was cancelled with a handler subscribed, and the
\* goroutine has called close() once and ended.
C18_Witness ==
    /\ newResult.svc = "s"
    /\ svcCtxDone
    /\ watcherPc = "done"
    /\ closeCalls = 1
    /\ cleared = {1}

\* C19: a call begun with its context cancelled and the slot populated sends
\* no request and returns the cached value without error; a call whose
\* request was sent under a cancelled context returns an error and does not
\* write the slot.
C19_CancelledCtx ==
    [][\A p \in Callers :
          /\ (bornPopulated[p] /\ ctxDone[p]) =>
                /\ ~fetched'[p]
                /\ (pc[p] # "idle" /\ pc'[p] = "idle") =>
                      /\ result'[p].err = NoErr
                      /\ result'[p].val = CachedValue
          /\ (pc[p] = "wait" /\ ctxDone[p] /\ pc'[p] # "wait") =>
                /\ pc'[p] = "idle"
                /\ result'[p].err # NoErr
                /\ result'[p].val = ZeroDomain
                /\ randaoDomain' = randaoDomain
                /\ heap' = heap]_vars

====
